---- MODULE Spec2Model ----
(***************************************************************************)
(* A model of bladerunner's interactive session (bladerunner/interactive.py)*)
(* and of its result consolidation (bladerunner/formatting.py).            *)
(*                                                                         *)
(* The session handlers connect(), end(), run(), _reconnect() and          *)
(* _login_if_not_already() are translated statement by statement.  A       *)
(* handler is split only where it blocks on the transport (the calls       *)
(* bladerunner.connect, bladerunner.close, bladerunner._send_cmd): the     *)
(* transport is the environment, it answers each call with any outcome it  *)
(* can produce.  Between two transport calls a handler runs as one step.   *)
(***************************************************************************)
EXTENDS Integers, Sequences, FiniteSets, TLC

\* ---- bounds ----
MaxHandles == 4      \* handles the transport hands out in one behaviour
MaxSends == 3        \* sends of one run() call that the model follows
MaxHosts == 3        \* length of the list given to consolidate()

Threads == {1, 2}
Sessions == <<"s1", "s2">>      \* self.server of the session thread t drives
Commands == {"c1", "c2"}
Outputs == {"o1", "o2"}

\* self.sshr is False before the first connect, None once ended, otherwise
\* the transport handle (a positive number here).
SSHR_FALSE == 0
SSHR_NONE == 0 - 1

OpenOutcomes == {"ok", "fail", "kbd"}
CloseOutcomes == {"ok", "err5", "oserror", "kbd"}
SendOutcomes == {"ok", "noresp", "err5", "oserror", "kbd"}

VARIABLES
    jump_host,       \* bool(self.bladerunner.options["jump_host"])
    sshr,            \* sshr[s]: self.sshr of session s
    sshc,            \* self.bladerunner.sshc, one attribute of the shared object
    handles,         \* transport: handles[h] = who opened h, as what, close seen
    self,            \* self[t]: the session thread t works on
    threads,         \* the threads that call the session methods
    pc,              \* pc[t]: position of thread t in the code
    stack,           \* stack[t]: return positions of the calls in progress
    ret,             \* ret[t]: value returned by the last finished call
    exc,             \* exc[t]: exception being propagated
    arg,             \* arg[t]: handle passed to the pending transport call
    status_return,   \* connect()'s parameter
    command,         \* run()'s parameter
    op,              \* history: the public method thread t called last
    sshr0,           \* history: self.sshr when that method was called
    calls,           \* history: transport calls made by that method so far
    ccalls,          \* history: transport calls of the current connect()
    prev,            \* history: op, result, sshr0 and last call of the method
                     \* thread t called before the current one
    results,         \* consolidate(): the list passed in (its dicts)
    finalresults,    \* consolidate(): the list returned (indices into results)
    input,           \* history: the list as it was before consolidate()
    cpc,             \* consolidate(): "off", "ready", "done", "again" or
                     \* "KeyError"
    xin,             \* the argument of the function a specification applies
    xout,            \* what that function returned
    xpc,             \* "off", "ready" or "done"
    job,             \* scheduler: the targets and the commands it was given
    wpc,             \* scheduler: position of the worker, or "off"
    wresults,        \* scheduler: the results of the target being worked on
    fresults,        \* scheduler: the HostResults produced so far
    fconnected       \* history: per HostResult, did the transport open the
                     \* target when the worker connected

ctl == <<pc, stack, ret, exc>>
locals == <<arg, status_return, command>>
hist == <<op, sshr0, calls, ccalls, prev>>
svars == <<jump_host, sshr, sshc, handles, self, threads, ctl, locals, hist>>
xvars == <<xin, xout, xpc>>
fvars == <<job, wpc, wresults, fresults, fconnected>>
cvars == <<results, finalresults, input, cpc, xvars, fvars>>
vars == <<svars, cvars>>

self_server(t) == self[t]

\* ---- control transfer ----
Goto(t, label) ==
    /\ pc' = [pc EXCEPT ![t] = label]
    /\ UNCHANGED <<stack, ret, exc>>

CallProc(t, proc, back) ==
    /\ pc' = [pc EXCEPT ![t] = proc]
    /\ stack' = [stack EXCEPT ![t] = <<back>> \o @]
    /\ UNCHANGED <<ret, exc>>

Return(t, value) ==
    /\ ret' = [ret EXCEPT ![t] = value]
    /\ exc' = exc
    /\ IF stack[t] = <<>>
       THEN pc' = [pc EXCEPT ![t] = "idle"] /\ stack' = stack
       ELSE /\ pc' = [pc EXCEPT ![t] = Head(stack[t])]
            /\ stack' = [stack EXCEPT ![t] = Tail(@)]

Raise(t, e) ==
    /\ pc' = [pc EXCEPT ![t] = "unwind"]
    /\ exc' = [exc EXCEPT ![t] = e]
    /\ UNCHANGED <<stack, ret>>

\* history entries: <<call, outcome, handle, text returned>>
Log(t, kind, out, h, text) ==
    calls' = [calls EXCEPT ![t] = Append(@, <<kind, out, h, text>>)]

LogConnect(t, kind, out, h) ==
    /\ Log(t, kind, out, h, "")
    /\ ccalls' = [ccalls EXCEPT ![t] = Append(@, <<kind, out, h, "">>)]

Sends(t) == Cardinality({i \in DOMAIN calls[t] : calls[t][i][1] = "send"})
Reconnects(t) ==
    Cardinality({i \in DOMAIN calls[t] : calls[t][i][1] = "_reconnect"})

\* ---- the public methods being called ----
Begin(t, name) ==
    /\ pc[t] = "idle"
    /\ op' = [op EXCEPT ![t] = name]
    /\ sshr0' = [sshr0 EXCEPT ![t] = sshr[self[t]]]
    /\ calls' = [calls EXCEPT ![t] = <<>>]
    /\ ccalls' = [ccalls EXCEPT ![t] = <<>>]
    /\ prev' = IF threads = {t}
               THEN [prev EXCEPT ![t] =
                       [op |-> op[t], ret |-> ret[t], sshr0 |-> sshr0[t],
                        last |-> IF calls[t] = <<>> THEN <<"none", "", 0, "">>
                                 ELSE calls[t][Len(calls[t])]]]
               ELSE prev   \* kept for the claims about one session only
    /\ pc' = [pc EXCEPT ![t] = name]
    /\ UNCHANGED <<stack, ret, exc>>

CallConnect(t, sr) ==
    /\ Begin(t, "connect")
    /\ status_return' = [status_return EXCEPT ![t] = sr]
    /\ UNCHANGED <<jump_host, sshr, sshc, handles, self, threads, arg, command, cvars>>

CallEnd(t) ==
    /\ Begin(t, "end")
    /\ UNCHANGED <<jump_host, sshr, sshc, handles, self, threads, locals, cvars>>

CallRun(t, c) ==
    /\ Begin(t, "run")
    /\ command' = [command EXCEPT ![t] = c]
    /\ UNCHANGED <<jump_host, sshr, sshc, handles, self, threads, arg, status_return,
                   cvars>>

\* ---- connect() ----
StatusValue_True(t, ok) ==
    IF status_return[t] THEN <<"True">> ELSE <<"None">>

StatusValue(t, ok) ==
    IF status_return[t] THEN (IF ok THEN <<"True">> ELSE <<"False">>)
    ELSE <<"None">>

connect(t) ==
    /\ pc[t] = "connect"
    /\ ccalls' = [ccalls EXCEPT ![t] = <<>>]
    /\ IF jump_host THEN Goto(t, "open_jump") ELSE Goto(t, "open_target")
    /\ UNCHANGED <<jump_host, sshr, sshc, handles, self, threads, locals, op, sshr0,
                   calls, prev, cvars>>

\* "if error < 0: ... return False if status_return else None"
jump_error_ignored(t) == Goto(t, "open_target")

jump_error(t) == Return(t, StatusValue(t, FALSE))

\* bladerunner.connect(jump_host, ...) answers
open_jump(t, out) ==
    /\ pc[t] = "open_jump"
    /\ CASE out = "ok" ->
              /\ Len(handles) < MaxHandles
              /\ handles' = Append(handles, [owner |-> self[t],
                                             kind |-> "jump",
                                             closed |-> FALSE])
              /\ sshc' = Len(handles) + 1
              /\ LogConnect(t, "open_jump", out, Len(handles) + 1)
              /\ Goto(t, "open_target")
         [] out = "fail" ->
              /\ LogConnect(t, "open_jump", out, 0)
              /\ jump_error(t)
              /\ UNCHANGED <<handles, sshc>>
         [] out = "kbd" ->
              /\ LogConnect(t, "open_jump", out, 0)
              /\ Raise(t, "KeyboardInterrupt")
              /\ UNCHANGED <<handles, sshc>>
    /\ UNCHANGED <<jump_host, sshr, self, threads, locals, op, sshr0, prev, cvars>>

\* bladerunner.connect(self.server, ...) answers
open_target(t, out) ==
    /\ pc[t] = "open_target"
    /\ CASE out = "ok" ->
              /\ Len(handles) < MaxHandles
              /\ handles' = Append(handles, [owner |-> self[t],
                                             kind |-> "target",
                                             closed |-> FALSE])
              /\ sshr' = [sshr EXCEPT ![self[t]] = Len(handles) + 1]
              /\ LogConnect(t, "open_target", out, Len(handles) + 1)
              /\ Return(t, StatusValue(t, TRUE))
         [] out = "fail" ->
              /\ LogConnect(t, "open_target", out, 0)
              /\ Return(t, StatusValue(t, FALSE))
              /\ UNCHANGED <<handles, sshr>>
         [] out = "kbd" ->
              /\ LogConnect(t, "open_target", out, 0)
              /\ Raise(t, "KeyboardInterrupt")
              /\ UNCHANGED <<handles, sshr>>
    /\ UNCHANGED <<jump_host, sshc, self, threads, locals, op, sshr0, prev, cvars>>

\* ---- end() ----
\* "self.sshr in [False, None]"
NotOpen_FalseOnly(t) == sshr[self[t]] = SSHR_FALSE

NotOpen(t) == sshr[self[t]] \in {SSHR_FALSE, SSHR_NONE}

\* "self.sshr = None"
SetClosed_False(t) == sshr' = [sshr EXCEPT ![self[t]] = SSHR_FALSE]

SetClosed(t) == sshr' = [sshr EXCEPT ![self[t]] = SSHR_NONE]

end(t) ==
    /\ pc[t] = "end"
    /\ IF NotOpen(t)
       THEN /\ SetClosed(t)
            /\ Return(t, <<"None">>)
            /\ arg' = arg
       ELSE /\ arg' = [arg EXCEPT ![t] = sshr[self[t]]]
            /\ Goto(t, "close_target")
            /\ sshr' = sshr
    /\ UNCHANGED <<jump_host, sshc, handles, self, threads, status_return, command,
                   hist, cvars>>

MarkClosed(h, out) ==
    IF out \in {"ok", "err5"} /\ h \in DOMAIN handles
    THEN handles' = [handles EXCEPT ![h].closed = TRUE]
    ELSE handles' = handles

\* bladerunner.close(self.sshr, ...) answers
close_target(t, out) ==
    /\ pc[t] = "close_target"
    /\ Log(t, "close_target", out, arg[t], "")
    /\ MarkClosed(arg[t], out)
    /\ CASE out = "ok" /\ jump_host ->
              /\ arg' = [arg EXCEPT ![t] = sshc]
              /\ Goto(t, "close_jump")
              /\ sshr' = sshr
         [] out = "ok" /\ ~jump_host ->
              /\ SetClosed(t)
              /\ Return(t, <<"None">>)
              /\ arg' = arg
         [] out = "err5" ->
              /\ SetClosed(t)
              /\ Return(t, <<"None">>)
              /\ arg' = arg
         [] out = "oserror" ->
              /\ Raise(t, "OSError")
              /\ UNCHANGED <<sshr, arg>>
         [] out = "kbd" ->
              /\ Raise(t, "KeyboardInterrupt")
              /\ UNCHANGED <<sshr, arg>>
    /\ UNCHANGED <<jump_host, sshc, self, threads, status_return, command, op, sshr0,
                   ccalls, prev, cvars>>

\* bladerunner.close(self.bladerunner.sshc, True) answers
close_jump(t, out) ==
    /\ pc[t] = "close_jump"
    /\ Log(t, "close_jump", out, arg[t], "")
    /\ MarkClosed(arg[t], out)
    /\ CASE out \in {"ok", "err5"} ->
              /\ SetClosed(t)
              /\ Return(t, <<"None">>)
         [] out = "oserror" ->
              /\ Raise(t, "OSError")
              /\ sshr' = sshr
         [] out = "kbd" ->
              /\ Raise(t, "KeyboardInterrupt")
              /\ sshr' = sshr
    /\ UNCHANGED <<jump_host, sshc, self, threads, locals, op, sshr0, ccalls, prev, cvars>>

\* ---- _login_if_not_already() ----
_login_if_not_already(t) ==
    /\ pc[t] = "_login_if_not_already"
    /\ IF sshr[self[t]] = SSHR_FALSE
       THEN /\ status_return' = [status_return EXCEPT ![t] = FALSE]
            /\ CallProc(t, "connect", "login_check")
       ELSE /\ status_return' = status_return
            /\ Goto(t, "login_check")
    /\ UNCHANGED <<jump_host, sshr, sshc, handles, self, threads, arg, command, hist,
                   cvars>>

login_check(t) ==
    /\ pc[t] = "login_check"
    /\ IF sshr[self[t]] \in {SSHR_FALSE, SSHR_NONE}
       THEN Return(t, <<"is_closed", self_server(t)>>)
       ELSE Return(t, <<"True">>)
    /\ UNCHANGED <<jump_host, sshr, sshc, handles, self, threads, locals, hist, cvars>>

login_interrupted(t) ==
    /\ pc[t] = "login_interrupted"
    /\ CallProc(t, "end", "login_canceled")
    /\ UNCHANGED <<jump_host, sshr, sshc, handles, self, threads, locals, hist, cvars>>

login_canceled(t) ==
    /\ pc[t] = "login_canceled"
    /\ Return(t, <<"was_canceled", self_server(t)>>)
    /\ UNCHANGED <<jump_host, sshr, sshc, handles, self, threads, locals, hist, cvars>>

\* ---- _reconnect() ----
_reconnect(t) ==
    /\ pc[t] = "_reconnect"
    /\ Log(t, "_reconnect", "call", 0, "")
    /\ CallProc(t, "end", "reconnect_connect")
    /\ UNCHANGED <<jump_host, sshr, sshc, handles, self, threads, locals, op, sshr0,
                   ccalls, prev, cvars>>

reconnect_connect(t) ==
    /\ pc[t] = "reconnect_connect"
    /\ status_return' = [status_return EXCEPT ![t] = TRUE]
    /\ CallProc(t, "connect", "reconnect_return")
    /\ UNCHANGED <<jump_host, sshr, sshc, handles, self, threads, arg, command, hist,
                   cvars>>

reconnect_return(t) ==
    /\ pc[t] = "reconnect_return"
    /\ Return(t, ret[t])
    /\ UNCHANGED <<jump_host, sshr, sshc, handles, self, threads, locals, hist, cvars>>

reconnect_interrupted(t) ==
    /\ pc[t] = "reconnect_interrupted"
    /\ CallProc(t, "end", "reconnect_cancelled")
    /\ UNCHANGED <<jump_host, sshr, sshc, handles, self, threads, locals, hist, cvars>>

reconnect_cancelled(t) ==
    /\ pc[t] = "reconnect_cancelled"
    /\ Return(t, <<"None">>)
    /\ UNCHANGED <<jump_host, sshr, sshc, handles, self, threads, locals, hist, cvars>>

\* ---- run() ----
run(t) ==
    /\ pc[t] = "run"
    /\ CallProc(t, "_login_if_not_already", "run_connection")
    /\ UNCHANGED <<jump_host, sshr, sshc, handles, self, threads, locals, hist, cvars>>

run_connection(t) ==
    /\ pc[t] = "run_connection"
    /\ IF ret[t] # <<"True">>
       THEN Return(t, ret[t]) /\ arg' = arg
       ELSE /\ arg' = [arg EXCEPT ![t] = sshr[self[t]]]
            /\ Goto(t, "_send_cmd")
    /\ UNCHANGED <<jump_host, sshr, sshc, handles, self, threads, status_return,
                   command, hist, cvars>>

\* "if ret == -1: return 'did not return after issuing: ...'"
no_response_reconnects(t) == CallProc(t, "_reconnect", "run_reconnected")

no_response(t) == Return(t, <<"did_not_return", command[t]>>)

\* bladerunner._send_cmd(command, self.sshr) answers
_send_cmd(t, out, text) ==
    /\ pc[t] = "_send_cmd"
    /\ Sends(t) < MaxSends
    /\ Log(t, "send", out, arg[t], IF out = "ok" THEN text ELSE "")
    /\ CASE out = "ok" -> Return(t, <<"output", text>>)
         [] out = "noresp" -> no_response(t)
         [] out = "err5" -> CallProc(t, "_reconnect", "run_reconnected")
         [] out = "oserror" -> Raise(t, "OSError")
         [] out = "kbd" -> Raise(t, "KeyboardInterrupt")
    /\ UNCHANGED <<jump_host, sshr, sshc, handles, self, threads, locals, op, sshr0,
                   ccalls, prev, cvars>>

run_reconnected_gives_up(t) ==
    /\ pc[t] = "run_reconnected"
    /\ Return(t, <<"was_lost", self_server(t)>>)
    /\ UNCHANGED <<jump_host, sshr, sshc, handles, self, threads, locals, hist,
                   cvars>>

run_reconnected(t) ==
    /\ pc[t] = "run_reconnected"
    /\ IF ret[t] = <<"True">>
       THEN Goto(t, "run")
       ELSE Return(t, <<"was_lost", self_server(t)>>)
    /\ UNCHANGED <<jump_host, sshr, sshc, handles, self, threads, locals, hist, cvars>>

\* ---- an exception leaving a frame ----
unwind(t) ==
    /\ pc[t] = "unwind"
    /\ IF stack[t] = <<>>
       THEN /\ pc' = [pc EXCEPT ![t] = "idle"]
            /\ ret' = [ret EXCEPT ![t] = <<"raised", exc[t]>>]
            /\ stack' = stack
       ELSE /\ stack' = [stack EXCEPT ![t] = Tail(@)]
            /\ ret' = ret
            /\ pc' = [pc EXCEPT ![t] =
                 IF exc[t] = "KeyboardInterrupt" /\ Head(stack[t]) = "login_check"
                 THEN "login_interrupted"
                 ELSE IF /\ exc[t] = "KeyboardInterrupt"
                         /\ Head(stack[t]) \in {"reconnect_connect",
                                                 "reconnect_return"}
                 THEN "reconnect_interrupted"
                 ELSE "unwind"]
    /\ exc' = exc
    /\ UNCHANGED <<jump_host, sshr, sshc, handles, self, threads, locals, hist, cvars>>

\* ---- the session specification ----
FanoutOff ==
    /\ job = <<>>
    /\ wpc = "off"
    /\ wresults = <<>>
    /\ fresults = <<>>
    /\ fconnected = <<>>

InitSessionState ==
    /\ sshr = [s \in {Sessions[t] : t \in Threads} |-> SSHR_FALSE]
    /\ sshc = 0
    /\ handles = <<>>
    /\ self = [t \in Threads |-> Sessions[t]]
    /\ pc = [t \in Threads |-> "idle"]
    /\ stack = [t \in Threads |-> <<>>]
    /\ ret = [t \in Threads |-> <<"None">>]
    /\ exc = [t \in Threads |-> "none"]
    /\ arg = [t \in Threads |-> 0]
    /\ status_return = [t \in Threads |-> FALSE]
    /\ command = [t \in Threads |-> "c1"]
    /\ op = [t \in Threads |-> "none"]
    /\ sshr0 = [t \in Threads |-> SSHR_FALSE]
    /\ calls = [t \in Threads |-> <<>>]
    /\ ccalls = [t \in Threads |-> <<>>]
    /\ prev = [t \in Threads |->
                 [op |-> "none", ret |-> <<"None">>, sshr0 |-> SSHR_FALSE,
                  last |-> <<"none", "", 0, "">>]]
    /\ results = <<>>
    /\ finalresults = <<>>
    /\ input = <<>>
    /\ cpc = "off"
    /\ xin = <<>>
    /\ xout = <<>>
    /\ xpc = "off"

InitSession == InitSessionState /\ FanoutOff

\* one session, used from one thread, with or without a jump host
Init ==
    /\ jump_host \in BOOLEAN
    /\ threads = {1}
    /\ InitSession

Next ==
    \/ \E t \in threads, sr \in BOOLEAN : CallConnect(t, sr)
    \/ \E t \in threads : CallEnd(t)
    \/ \E t \in threads, c \in Commands : CallRun(t, c)
    \/ \E t \in threads : connect(t)
    \/ \E t \in threads, out \in OpenOutcomes : open_jump(t, out)
    \/ \E t \in threads, out \in OpenOutcomes : open_target(t, out)
    \/ \E t \in threads : end(t)
    \/ \E t \in threads, out \in CloseOutcomes : close_target(t, out)
    \/ \E t \in threads, out \in CloseOutcomes : close_jump(t, out)
    \/ \E t \in threads : _login_if_not_already(t)
    \/ \E t \in threads : login_check(t)
    \/ \E t \in threads : login_interrupted(t)
    \/ \E t \in threads : login_canceled(t)
    \/ \E t \in threads : _reconnect(t)
    \/ \E t \in threads : reconnect_connect(t)
    \/ \E t \in threads : reconnect_return(t)
    \/ \E t \in threads : reconnect_interrupted(t)
    \/ \E t \in threads : reconnect_cancelled(t)
    \/ \E t \in threads : run(t)
    \/ \E t \in threads : run_connection(t)
    \/ \E t \in threads, out \in SendOutcomes, text \in Outputs :
          _send_cmd(t, out, text)
    \/ \E t \in threads : run_reconnected(t)
    \/ \E t \in threads : unwind(t)

Spec == Init /\ [][Next]_vars

\* two sessions of one Bladerunner object with a jump host, each driven by
\* its own thread, calling connect() and end()
InitTwo ==
    /\ jump_host = TRUE
    /\ threads = Threads
    /\ InitSession

NextTwo ==
    \/ \E t \in threads, sr \in BOOLEAN : CallConnect(t, sr)
    \/ \E t \in threads : CallEnd(t)
    \/ \E t \in threads : connect(t)
    \/ \E t \in threads, out \in {"ok", "fail"} : open_jump(t, out)
    \/ \E t \in threads, out \in {"ok", "fail"} : open_target(t, out)
    \/ \E t \in threads : end(t)
    \/ \E t \in threads, out \in {"ok", "err5"} : close_target(t, out)
    \/ \E t \in threads, out \in {"ok", "err5"} : close_jump(t, out)

SpecTwo == InitTwo /\ [][NextTwo]_vars

\* ---- run_threaded() and connect_threaded() on one session ----
\* threading.Thread(target=...).start(): thread t begins the method on the
\* session the caller holds, the first one
StartThread(t, name) ==
    /\ pc[t] = "idle"
    /\ op[t] = "none"
    /\ self' = [self EXCEPT ![t] = Sessions[1]]
    /\ op' = [op EXCEPT ![t] = name]
    /\ sshr0' = [sshr0 EXCEPT ![t] = sshr[Sessions[1]]]
    /\ pc' = [pc EXCEPT ![t] = name]
    /\ UNCHANGED <<jump_host, sshr, sshc, handles, threads, stack, ret, exc, arg,
                   calls, ccalls, prev, cvars>>

run_threaded(t, c) ==
    /\ StartThread(t, "run")
    /\ command' = [command EXCEPT ![t] = c]
    /\ UNCHANGED status_return

connect_threaded(t) ==
    /\ StartThread(t, "connect")
    /\ status_return' = [status_return EXCEPT ![t] = TRUE]
    /\ UNCHANGED command

InitThreaded ==
    /\ jump_host = FALSE
    /\ threads = Threads
    /\ InitSession

NextThreaded ==
    \/ \E t \in threads, c \in Commands : run_threaded(t, c)
    \/ \E t \in threads : connect_threaded(t)
    \/ \E t \in threads : connect(t)
    \/ \E t \in threads, out \in {"ok", "fail"} : open_target(t, out)
    \/ \E t \in threads : _login_if_not_already(t)
    \/ \E t \in threads : login_check(t)
    \/ \E t \in threads : run(t)
    \/ \E t \in threads : run_connection(t)
    \/ \E t \in threads, out \in {"ok", "noresp"} : _send_cmd(t, out, "o1")

SpecThreaded == InitThreaded /\ [][NextThreaded]_vars

\* ---- consolidate() ----
Names == {"a", "b"}

\* a HostResult's "results": a list of (command, output) pairs
ResultSeqs ==
    { <<>>,
      << <<"c1", "o1">> >>,
      << <<"c1", "o2">> >>,
      << <<"c2", "o1">> >>,
      << <<"c1", "o1">>, <<"c2", "o1">> >>,
      << <<"c2", "o1">>, <<"c1", "o1">> >> }

\* the dicts Bladerunner.run returns: {"name": ..., "results": [...]}
HostResults == [name : Names, results : ResultSeqs]

\* "for tempserver in finalresults: if tempserver['results'] ==
\* server['results']": the position in fin of the first match, 0 for none
FindGroup_outputs(res, fin, r) ==
    LET outs(x) == [k \in DOMAIN x |-> x[k][2]]
        S == {j \in DOMAIN fin : outs(res[fin[j]].results) = outs(r)}
    IN  IF S = {} THEN 0 ELSE CHOOSE j \in S : \A k \in S : j <= k

FindGroup(res, fin, r) ==
    LET S == {j \in DOMAIN fin : res[fin[j]].results = r}
    IN  IF S = {} THEN 0 ELSE CHOOSE j \in S : \A k \in S : j <= k

RECURSIVE ConsolidateFrom_prepend(_, _, _)
ConsolidateFrom_prepend(res, fin, i) ==
    IF i > Len(res)
    THEN [results |-> res, finalresults |-> fin, raised |-> "none"]
    ELSE LET srv == res[i]
             j == FindGroup(res, fin, srv.results)
         IN  IF "name" \notin DOMAIN srv
             THEN [results |-> res, finalresults |-> fin,
                   raised |-> "KeyError"]
             ELSE IF j # 0
             THEN ConsolidateFrom_prepend(
                      [res EXCEPT ![fin[j]] =
                          [names |-> <<srv.name>> \o @.names,
                           results |-> @.results]],
                      fin, i + 1)
             ELSE ConsolidateFrom_prepend(
                      [res EXCEPT ![i] =
                          [names |-> <<srv.name>>,
                           results |-> srv.results]],
                      Append(fin, i), i + 1)

\* the loop "for server in results" from position i on; res are the dicts
\* of the list (changed in place), fin the positions in res of the dicts
\* that finalresults holds
RECURSIVE ConsolidateFrom(_, _, _)
ConsolidateFrom(res, fin, i) ==
    IF i > Len(res)
    THEN [results |-> res, finalresults |-> fin, raised |-> "none"]
    ELSE LET server == res[i]
             j == FindGroup(res, fin, server.results)
         IN  IF "name" \notin DOMAIN server
             THEN [results |-> res, finalresults |-> fin,
                   raised |-> "KeyError"]
             ELSE IF j # 0
             THEN ConsolidateFrom(
                      [res EXCEPT ![fin[j]] =
                          [names |-> Append(@.names, server.name),
                           results |-> @.results]],
                      fin, i + 1)
             ELSE ConsolidateFrom(
                      [res EXCEPT ![i] =
                          [names |-> <<server.name>>,
                           results |-> server.results]],
                      Append(fin, i), i + 1)

consolidate ==
    /\ cpc = "ready"
    /\ LET r == ConsolidateFrom(results, <<>>, 1) IN
          /\ results' = r.results
          /\ finalresults' = r.finalresults
          /\ cpc' = IF r.raised = "none" THEN "done" ELSE r.raised
    /\ UNCHANGED <<input, svars, xvars, fvars>>

\* consolidate() called once more with the same list object
consolidate_again ==
    /\ cpc = "done"
    /\ LET r == ConsolidateFrom(results, <<>>, 1) IN
          /\ results' = r.results
          /\ finalresults' = r.finalresults
          /\ cpc' = IF r.raised = "none" THEN "again" ELSE r.raised
    /\ UNCHANGED <<input, svars, xvars, fvars>>

InitConsolidate ==
    /\ jump_host = FALSE
    /\ threads = {}
    /\ sshr = [s \in {Sessions[t] : t \in Threads} |-> SSHR_FALSE]
    /\ sshc = 0
    /\ handles = <<>>
    /\ self = [t \in Threads |-> Sessions[t]]
    /\ pc = [t \in Threads |-> "idle"]
    /\ stack = [t \in Threads |-> <<>>]
    /\ ret = [t \in Threads |-> <<"None">>]
    /\ exc = [t \in Threads |-> "none"]
    /\ arg = [t \in Threads |-> 0]
    /\ status_return = [t \in Threads |-> FALSE]
    /\ command = [t \in Threads |-> "c1"]
    /\ op = [t \in Threads |-> "none"]
    /\ sshr0 = [t \in Threads |-> SSHR_FALSE]
    /\ calls = [t \in Threads |-> <<>>]
    /\ ccalls = [t \in Threads |-> <<>>]
    /\ prev = [t \in Threads |->
                 [op |-> "none", ret |-> <<"None">>, sshr0 |-> SSHR_FALSE,
                  last |-> <<"none", "", 0, "">>]]
    /\ results \in UNION {[1 .. n -> HostResults] : n \in 0 .. MaxHosts}
    /\ finalresults = <<>>
    /\ input = results
    /\ cpc = "ready"
    /\ xin = <<>>
    /\ xout = <<>>
    /\ xpc = "off"
    /\ FanoutOff

NextConsolidate == consolidate \/ consolidate_again

SpecConsolidate == InitConsolidate /\ [][NextConsolidate]_vars

\* ---- strings: sequences of one-character strings ----
RECURSIVE StringsUpTo(_, _)
StringsUpTo(chars, n) ==
    IF n = 0 THEN {<<>>}
    ELSE LET shorter == StringsUpTo(chars, n - 1)
         IN  shorter \cup {Append(w, c) : w \in shorter, c \in chars}

\* sub occurs in str at position i
OccursAt(str, sub, i) ==
    /\ i >= 1
    /\ i + Len(sub) - 1 <= Len(str)
    /\ \A k \in 1 .. Len(sub) : str[i + k - 1] = sub[k]

\* "sub in str", str.find(sub) > -1
Contains(str, sub) == \E i \in 1 .. Len(str) + 1 : OccursAt(str, sub, i)

Stars(n) == [k \in 1 .. n |-> "*"]

\* str.replace(old, new) from position i on, for a non-empty old: the
\* occurrences are taken from the left and do not overlap
RECURSIVE ReplaceFrom(_, _, _, _)
ReplaceFrom(str, old, new, i) ==
    IF i > Len(str) THEN <<>>
    ELSE IF OccursAt(str, old, i)
    THEN new \o ReplaceFrom(str, old, new, i + Len(old))
    ELSE <<str[i]>> \o ReplaceFrom(str, old, new, i + 1)

Replace(str, old, new) == ReplaceFrom(str, old, new, 1)

\* ---- format_line() ----
ESC == "ESC"        \* \033, \x1b
SI == "SI"          \* \x0f
Whitespace == {" ", "\t", "\n", "\r"}
Params == {"0", "1", ";"}        \* the characters of [0-9;] in use

\* line.strip(os.linesep), os.linesep being "\n"
RECURSIVE StripChars(_, _)
StripChars(str, chars) ==
    IF str = <<>> THEN str
    ELSE IF Head(str) \in chars THEN StripChars(Tail(str), chars)
    ELSE IF str[Len(str)] \in chars
    THEN StripChars(SubSeq(str, 1, Len(str) - 1), chars)
    ELSE str

\* the length of the match of ESC "[" [0-9;]+ final at position i, 0 if none
CsiMatch(str, i, final) ==
    IF ~(i + 1 <= Len(str) /\ str[i] = ESC /\ str[i + 1] = "[") THEN 0
    ELSE LET stop == CHOOSE j \in i + 2 .. Len(str) + 1 :
                        /\ \A k \in i + 2 .. j - 1 : str[k] \in Params
                        /\ j = Len(str) + 1 \/ str[j] \notin Params
         IN  IF stop > i + 2 /\ stop <= Len(str) /\ str[stop] = final
             THEN stop - i + 1 ELSE 0

\* re.sub("\033\[[0-9;]+" + final, "", line) from position i on
RECURSIVE RemoveCsi(_, _, _)
RemoveCsi(str, final, i) ==
    IF i > Len(str) THEN <<>>
    ELSE IF CsiMatch(str, i, final) > 0
    THEN RemoveCsi(str, final, i + CsiMatch(str, i, final))
    ELSE <<str[i]>> \o RemoveCsi(str, final, i + 1)

\* re.sub("^\s+", "", line)
RECURSIVE StripLeading(_)
StripLeading(str) ==
    IF str # <<>> /\ Head(str) \in Whitespace
    THEN StripLeading(Tail(str)) ELSE str

\* the cleaning part of format_line
CleanLine(line) ==
    LET l1 == StripChars(line, {"\n"})
        l2 == SelectSeq(l1, LAMBDA c : c # "\r")
        l3 == RemoveCsi(l2, "m", 1)
        l4 == RemoveCsi(l3, "G", 1)
        l5 == Replace(l4, <<ESC, "[", "m", SI>>, <<>>)
    IN  StripLeading(l5)

\* "line = line.replace(passwd, '*' * len(passwd))"
\* (Redact_once: only the first occurrence, as replace(..., 1) would)
Redact_once(line, passwd) ==
    LET S == {i \in 1 .. Len(line) : OccursAt(line, passwd, i)}
    IN  IF S = {} THEN line
        ELSE LET i == CHOOSE k \in S : \A m \in S : k <= m
             IN  SubSeq(line, 1, i - 1) \o Stars(Len(passwd))
                 \o SubSeq(line, i + Len(passwd), Len(line))

Redact(line, passwd) == Replace(line, passwd, Stars(Len(passwd)))

\* an option holds one password or a list of them: both are replaced one
\* by one, here the value is the list (empty for an unset option)
RECURSIVE RedactAll(_, _)
RedactAll(line, passwords) ==
    IF passwords = <<>> THEN line
    ELSE RedactAll(Redact(line, Head(passwords)), Tail(passwords))

PasswordKeys == <<"password", "second_password", "jump_password">>

RECURSIVE RedactKeys(_, _, _)
RedactKeys(line, options, keys) ==
    IF keys = <<>> THEN line
    ELSE RedactKeys(
             IF Head(keys) \in DOMAIN options
             THEN RedactAll(line, options[Head(keys)]) ELSE line,
             options, Tail(keys))

format_line(line, options) ==
    RedactKeys(CleanLine(line), options, PasswordKeys)

\* ---- format_line applied to drawn lines and passwords ----
MaxLine == 4          \* length of the line given to format_line
LineChars == {"a", "b", "*", " "}
Secrets == StringsUpTo({"a", "b", "*"}, 2) \ {<<>>}
PasswordValues == {<<>>} \cup {<<p>> : p \in Secrets}
SecondPasswordValues ==
    {<<>>, << <<"b">> >>, << <<"*">> >>, << <<"b", "a">> >>,
     << <<"a", "*">> >>}
JumpPasswordValues == {<<>>, << <<"a">> >>, << <<"b">>, <<"a", "*">> >>}

InitIdle ==
    /\ jump_host = FALSE
    /\ threads = {}
    /\ sshr = [s \in {Sessions[t] : t \in Threads} |-> SSHR_FALSE]
    /\ sshc = 0
    /\ handles = <<>>
    /\ self = [t \in Threads |-> Sessions[t]]
    /\ pc = [t \in Threads |-> "idle"]
    /\ stack = [t \in Threads |-> <<>>]
    /\ ret = [t \in Threads |-> <<"None">>]
    /\ exc = [t \in Threads |-> "none"]
    /\ arg = [t \in Threads |-> 0]
    /\ status_return = [t \in Threads |-> FALSE]
    /\ command = [t \in Threads |-> "c1"]
    /\ op = [t \in Threads |-> "none"]
    /\ sshr0 = [t \in Threads |-> SSHR_FALSE]
    /\ calls = [t \in Threads |-> <<>>]
    /\ ccalls = [t \in Threads |-> <<>>]
    /\ prev = [t \in Threads |->
                 [op |-> "none", ret |-> <<"None">>, sshr0 |-> SSHR_FALSE,
                  last |-> <<"none", "", 0, "">>]]
    /\ results = <<>>
    /\ finalresults = <<>>
    /\ input = <<>>
    /\ cpc = "off"
    /\ FanoutOff

InitPure ==
    /\ InitIdle
    /\ xout = <<>>
    /\ xpc = "ready"

InitFormatLine ==
    /\ InitPure
    /\ xin \in [line : StringsUpTo(LineChars, MaxLine),
                 options : [password : PasswordValues,
                            second_password : SecondPasswordValues,
                            jump_password : JumpPasswordValues]]

CallFormatLine ==
    /\ xpc = "ready"
    /\ xout' = format_line(xin.line, xin.options)
    /\ xpc' = "done"
    /\ UNCHANGED <<xin, svars, results, finalresults, input, cpc, fvars>>

NextFormatLine == CallFormatLine

SpecFormatLine == InitFormatLine /\ [][NextFormatLine]_vars

\* ---- csv_results() ----
\* str.split(sep) for a one-character sep
RECURSIVE Split(_, _)
Split(str, sep) ==
    LET S == {i \in DOMAIN str : str[i] = sep}
    IN  IF S = {} THEN <<str>>
        ELSE LET i == CHOOSE k \in S : \A m \in S : k <= m
             IN  <<SubSeq(str, 1, i - 1)>>
                 \o Split(SubSeq(str, i + 1, Len(str)), sep)

\* sep.join(list)
RECURSIVE Join(_, _)
Join(list, sep) ==
    IF list = <<>> THEN <<>>
    ELSE IF Len(list) = 1 THEN list[1]
    ELSE list[1] \o sep \o Join(Tail(list), sep)

\* no_empties: the empty items are dropped, the others are stripped (the
\* encode/decode round trip returns the text it was given)
RECURSIVE no_empties(_)
no_empties(input_list) ==
    IF input_list = <<>> THEN <<>>
    ELSE IF Head(input_list) = <<>> THEN no_empties(Tail(input_list))
    ELSE <<StripChars(Head(input_list), Whitespace)>>
         \o no_empties(Tail(input_list))

\* '"' * int(" " in field)
Quote(field) == IF Contains(field, <<" ">>) THEN <<"\"">> ELSE <<>>

csv_char_of(options) ==
    IF "csv_char" \in DOMAIN options THEN options.csv_char ELSE <<",">>

\* the row csv_results writes for one (command, command_result) of server
CsvFields(srv, cmd, command_result) ==
    <<IF "name" \in DOMAIN srv /\ srv.name # <<>>
      THEN srv.name ELSE Join(srv.names, <<" ">>),
      cmd,
      Join(no_empties(Split(command_result, "\n")), <<"\n">>)>>

CsvRow(fields, csv) ==
    Quote(fields[1]) \o fields[1] \o Quote(fields[1]) \o csv
    \o Quote(fields[2]) \o fields[2] \o Quote(fields[2]) \o csv
    \o Quote(fields[3]) \o fields[3] \o Quote(fields[3])
    \o <<"\r", "\n">>

\* everything csv_results writes, one element per write() call
RECURSIVE CsvRows(_, _, _)
CsvRows(srv, res, csv) ==
    IF res = <<>> THEN <<>>
    ELSE <<CsvRow(CsvFields(srv, res[1][1], res[1][2]), csv)>>
         \o CsvRows(srv, Tail(res), csv)

RECURSIVE CsvServers(_, _)
CsvServers(servers, csv) ==
    IF servers = <<>> THEN <<>>
    ELSE CsvRows(servers[1], servers[1].results, csv)
         \o CsvServers(Tail(servers), csv)

csv_results(servers, options) ==
    LET csv == csv_char_of(options)
    IN  << <<"s", "e", "r", "v", "e", "r">> \o csv
           \o <<"c", "o", "m", "m", "a", "n", "d">> \o csv
           \o <<"r", "e", "s", "u", "l", "t", "\r", "\n">> >>
        \o CsvServers(servers, csv)

MaxField == 3         \* length of a result text given to csv_results
FieldChars == {"a", " ", ",", "\n"}
CsvCommands == {<<"a">>, <<"a", " ", "b">>, <<"a", ";", "b">>}
CsvServerKeys ==
    {[name |-> <<"h">>], [names |-> << <<"h">>, <<"k">> >>],
     [name |-> <<"h", ",", "k">>]}
CsvOptions == {<<>>, [csv_char |-> <<";">>], [csv_char |-> <<",">>]}

InitCsv ==
    /\ InitPure
    /\ \E key \in CsvServerKeys, cmd \in CsvCommands,
          text \in StringsUpTo(FieldChars, MaxField), o \in CsvOptions :
          xin = [results |->
                    <<[k \in DOMAIN key \cup {"results"} |->
                         IF k = "results" THEN << <<cmd, text>> >>
                         ELSE key[k]]>>,
                 options |-> o]

CallCsvResults ==
    /\ xpc = "ready"
    /\ xout' = csv_results(xin.results, xin.options)
    /\ xpc' = "done"
    /\ UNCHANGED <<xin, svars, results, finalresults, input, cpc, fvars>>

NextCsv == CallCsvResults

SpecCsv == InitCsv /\ [][NextCsv]_vars

\* ---- write() and _retry_write(): a renderer's write() calls ----
MaxPieces == 2        \* write() calls of one render

DEFAULT_ENCODINGS == <<"utf-8", "latin-1", "utf-16">>

\* the kinds of text: what stdout can print and what each encoding encodes
PieceKinds == {"ascii", "wide", "surrogate"}
Printable(kind) == kind = "ascii"
Encodes(enc, kind) ==
    CASE kind = "ascii" -> TRUE
      [] kind = "wide" -> enc \in {"utf-8", "utf-16"}
      [] kind = "surrogate" -> FALSE

FileNames == {"f", "g"}

\* "for enc in DEFAULT_ENCODINGS": the first encoding that writes the text,
\* 0 when the loop runs to its else
RECURSIVE FirstEncoding(_, _)
FirstEncoding(kind, k) ==
    IF k > Len(DEFAULT_ENCODINGS) THEN 0
    ELSE IF Encodes(DEFAULT_ENCODINGS[k], kind) THEN k
    ELSE FirstEncoding(kind, k + 1)

\* xout here: what is on stdout and in each file, options["output_file"]
\* ("" when unset) and the index of the piece being written
WriteTo(out, sink, piece) ==
    IF sink = "" THEN [out EXCEPT !.stdout = Append(@, piece)]
    ELSE [out EXCEPT !.files[sink] = Append(@, piece)]

Advance(out) ==
    /\ xout' = [out EXCEPT !.next = @ + 1]
    /\ xpc' = IF out.next = Len(xin.pieces) THEN "done" ELSE "write"

\* write(string, options, end) for the piece at xout.next
write ==
    /\ xpc = "write"
    /\ LET kind == xin.pieces[xout.next]
           enc == FirstEncoding(kind, 1)
       IN  IF xout.output_file # ""
           THEN IF enc # 0
                THEN Advance(WriteTo(xout, xout.output_file,
                                     <<xout.next, DEFAULT_ENCODINGS[enc]>>))
                ELSE xpc' = "_retry_write" /\ xout' = xout
           ELSE IF Printable(kind)
                THEN Advance(WriteTo(xout, "", <<xout.next, "stdout">>))
                ELSE xpc' = "_retry_write" /\ xout' = xout
    /\ UNCHANGED <<xin, svars, results, finalresults, input, cpc, fvars>>

\* the first prompt of _retry_write: "y...", anything else, or Ctrl-C
_retry_write(reply) ==
    /\ xpc = "_retry_write"
    /\ xpc' = IF reply = "y" THEN "file_name" ELSE "SystemExit"
    /\ UNCHANGED <<xin, xout, svars, results, finalresults, input, cpc, fvars>>

\* the "File name: " prompt, then write(string, options, end) again
file_name(reply) ==
    /\ xpc = "file_name"
    /\ IF reply = "kbd"
       THEN xpc' = "SystemExit" /\ xout' = xout
       ELSE xpc' = "write" /\ xout' = [xout EXCEPT !.output_file = reply]
    /\ UNCHANGED <<xin, svars, results, finalresults, input, cpc, fvars>>

InitWrite ==
    /\ InitIdle
    /\ xin \in [pieces : UNION {[1 .. n -> PieceKinds] : n \in 1 .. MaxPieces},
                 output_file : {"", "f"}]
    /\ xout = [stdout |-> <<>>, files |-> [f \in FileNames |-> <<>>],
               output_file |-> xin.output_file, next |-> 1]
    /\ xpc = "write"

NextWrite ==
    \/ write
    \/ \E reply \in {"y", "n", "kbd"} : _retry_write(reply)
    \/ \E reply \in FileNames \cup {"", "kbd"} : file_name(reply)

SpecWrite == InitWrite /\ [][NextWrite]_vars

\* ---- the command line: get_passwords(), convert_to_options() ----
\* A password is a text, <<>> when it is not set; typed holds what the user
\* answers to each getpass() prompt.
get_passwords(settings, typed) ==
    LET s1 == IF settings.usePassword /\ settings.password = <<>>
              THEN [settings EXCEPT !.password = typed.password]
              ELSE settings
        s2 == IF s1.setsecond_password /\ s1.second_password = <<>>
              THEN [s1 EXCEPT !.second_password = typed.second_password]
              ELSE IF s1.second_password = <<>>
              THEN [s1 EXCEPT !.second_password = s1.password]
              ELSE s1
    IN  IF s2.setjumpbox_password /\ s2.jump_host # <<>>
        THEN [s2 EXCEPT !.jump_pass = typed.jump_pass]
        ELSE IF s2.jump_pass = <<>>
        THEN [s2 EXCEPT !.jump_pass = s2.password]
        ELSE s2

\* the value an option holds for format_line: the passwords to replace
OptionValue(password) == IF password = <<>> THEN <<>> ELSE <<password>>

\* the keys of the dictionary that hold a host or a password
convert_to_options(settings) ==
    [jump_host |-> OptionValue(settings.jump_host),
     jump_pass |-> OptionValue(settings.jump_pass),
     password |-> OptionValue(settings.password),
     second_password |-> OptionValue(settings.second_password)]

CliSettings ==
    [usePassword : BOOLEAN, password : {<<>>, <<"p">>},
     setsecond_password : BOOLEAN, second_password : {<<>>, <<"q">>},
     setjumpbox_password : BOOLEAN, jump_host : {<<>>, <<"h">>},
     jump_pass : {<<>>, <<"j">>, <<"p">>}]
CliTyped ==
    [password |-> <<"p">>, second_password |-> <<"q">>,
     jump_pass |-> <<"j", "k">>]
CliLines ==
    {<<"x", " ", "j">>, <<"j", "k">>, <<"p", " ", "j", " ", "q">>}

InitCli ==
    /\ InitPure
    /\ xin \in [settings : CliSettings, typed : {CliTyped}, line : CliLines]

\* the options the command line builds, and a line formatted with them
CallCli ==
    /\ xpc = "ready"
    /\ LET options == convert_to_options(get_passwords(xin.settings, xin.typed))
       IN  xout' = [options |-> options, line |-> format_line(xin.line, options)]
    /\ xpc' = "done"
    /\ UNCHANGED <<xin, svars, results, finalresults, input, cpc, fvars>>

NextCli == CallCli

SpecCli == InitCli /\ [][NextCli]_vars

\* ---- format_output() ----
LONG_COMMAND == 60
size == 30

\* [command[i:i + size] for i in range(0, len(command), size)]
CmdSplit(cmd) ==
    [k \in 1 .. (Len(cmd) + size - 1) \div size |->
        SubSeq(cmd, size * (k - 1) + 1,
               IF size * k <= Len(cmd) THEN size * k ELSE Len(cmd))]

\* None counts as False where it is used
cmd_in_line(cmd, line) ==
    IF Len(cmd) < LONG_COMMAND THEN FALSE
    ELSE \E k \in DOMAIN CmdSplit(cmd) : Contains(line, CmdSplit(cmd)[k])

\* output.splitlines() of a text whose line ends are "\n"
splitlines(text) ==
    LET parts == Split(text, "\n")
    IN  IF parts[Len(parts)] = <<>> THEN SubSeq(parts, 1, Len(parts) - 1)
        ELSE parts

\* the loop "for line in output[1:-1]"
RECURSIVE KeptLines(_, _, _)
KeptLines(lines, cmd, options) ==
    IF lines = <<>> THEN <<>>
    ELSE LET line == format_line(Head(lines), options)
         IN  (IF line # <<>> /\ ~cmd_in_line(cmd, line) THEN <<line>> ELSE <<>>)
             \o KeptLines(Tail(lines), cmd, options)

format_output(output, cmd, options) ==
    LET lines == splitlines(output)
    IN  Join(KeptLines(SubSeq(lines, 2, Len(lines) - 1), cmd, options),
             <<"\n">>)

NoPasswords ==
    [password |-> <<>>, second_password |-> <<>>, jump_password |-> <<>>]

\* "abab...abs", n characters
CommandOf(n) ==
    [k \in 1 .. n |-> IF k = n THEN "s" ELSE IF k % 2 = 1 THEN "a" ELSE "b"]

MaxCommand == 61      \* length of the longest command given to format_output

\* raw lines: the last character of the command, words with and without it,
\* whole and shifted slices of the command, an empty line
RawLines(cmd) ==
    {<<>>, <<"s">>, <<"l", "s">>, <<" ", "x">>,
     SubSeq(cmd, 1, 30), <<"$", " ">> \o SubSeq(cmd, 2, 31),
     SubSeq(cmd, 1, 29)}

InitFormatOutput ==
    /\ InitPure
    /\ \E n \in LONG_COMMAND - 1 .. MaxCommand :
          \E middle \in UNION {[1 .. m -> RawLines(CommandOf(n))] : m \in 1 .. 2} :
             xin = [command |-> CommandOf(n),
                    output |-> Join(<<CommandOf(n)>> \o middle
                                    \o <<<<"$", " ">> >>, <<"\n">>)]

CallFormatOutput ==
    /\ xpc = "ready"
    /\ xout' = format_output(xin.output, xin.command, NoPasswords)
    /\ xpc' = "done"
    /\ UNCHANGED <<xin, svars, results, finalresults, input, cpc, fvars>>

NextFormatOutput == CallFormatOutput

SpecFormatOutput == InitFormatOutput /\ [][NextFormatOutput]_vars

\* ---- pretty_results() ----
\* A text is a sequence of characters, a frame glyph one character.
MaxCell == 28         \* length of the longest result line drawn

\* ch * n: nothing for n <= 0
Rep(ch, n) == [k \in 1 .. n |-> ch]

\* options["chars"][key][style]
Glyph(key, style) ==
    LET chars ==
        [top_left |-> <<"U+250C", "*", "U+2554", "U+256D">>,
         top |-> <<"U+2500", "-", "U+2550", "U+2500">>,
         top_right |-> <<"U+2510", "*", "U+2557", "U+256E">>,
         top_down |-> <<"U+252C", "+", "U+2566", "U+252C">>,
         side_left |-> <<"U+251C", "*", "U+2560", "U+251C">>,
         side |-> <<"U+2502", "|", "U+2551", "U+2502">>,
         middle |-> <<"U+253C", "+", "U+256C", "U+253C">>,
         side_right |-> <<"U+2524", "*", "U+2563", "U+2524">>,
         bot_left |-> <<"U+2514", "*", "U+255A", "U+2570">>,
         bot |-> <<"U+2500", "-", "U+2550", "U+2500">>,
         bot_right |-> <<"U+2518", "*", "U+255D", "U+256F">>,
         bot_up |-> <<"U+2534", "+", "U+2569", "U+2534">>]
    IN  chars[key][style + 1]

SERVER == <<" ", "S", "e", "r", "v", "e", "r">>
RESULT == <<" ", "R", "e", "s", "u", "l", "t">>
JUMPBOX == <<" ", "J", "u", "m", "p", "b", "o", "x", ":", " ">>

\* the longest name, at least 6
RECURSIVE LeftLen(_, _)
LeftLen(res, left_len) ==
    IF res = <<>> THEN left_len
    ELSE LET server == Head(res)
             longest(names) ==
                 IF names = <<>> THEN 0
                 ELSE CHOOSE n \in {Len(names[k]) : k \in DOMAIN names} :
                        \A k \in DOMAIN names : Len(names[k]) <= n
             here == IF "name" \in DOMAIN server THEN Len(server.name)
                     ELSE longest(server.names)
         IN  LeftLen(Tail(res), IF here > left_len THEN here ELSE left_len)

prepare_results(res, options) ==
    LET found == LeftLen(res, 0)
        already_consolidated == \E k \in DOMAIN res : "name" \notin DOMAIN res[k]
        c == ConsolidateFrom(res, <<>>, 1)
    IN  [results |-> IF already_consolidated THEN res
                     ELSE [k \in DOMAIN c.finalresults |->
                             c.results[c.finalresults[k]]],
         options |-> [style |-> IF options.style \in 0 .. 3
                                THEN options.style ELSE 0,
                      width |-> options.width,
                      jump_host |-> options.jump_host,
                      left_len |-> IF found < 6 THEN 6 ELSE found]]

\* the write() calls of pretty_header, in order
pretty_header(options) ==
    LET g(key) == Glyph(key, options.style)
        L == options.left_len
        W == options.width
        jumphost == options.jump_host
        J == Len(jumphost)
    IN  IF jumphost # <<>>
        THEN << <<g("top_left")>> \o Rep(g("top"), L + 2)
                \o <<g("top_down")>> \o Rep(g("top"), W - L - 17 - J)
                \o <<g("top_down")>> \o Rep(g("top"), J + 11)
                \o <<g("top_right"), "\n">>,
                <<g("side")>> \o SERVER \o Rep(" ", L - 6)
                \o <<" ", g("side")>> \o RESULT
                \o Rep(" ", W - L - 25 - J) \o <<" ", g("side")>>
                \o JUMPBOX \o jumphost \o <<" ", g("side"), "\n">> >>
        ELSE << <<g("top_left")>> \o Rep(g("top"), L + 2)
                \o <<g("top_down")>> \o Rep(g("top"), W - L - 5)
                \o <<g("top_right"), "\n">>,
                <<g("side")>> \o SERVER \o Rep(" ", L - 6)
                \o <<" ", g("side")>> \o RESULT
                \o Rep(" ", W - L - 13) \o <<" ", g("side"), "\n">> >>

\* the lines of all the results of one group, empty ones tossed
RECURSIVE ResultLines(_)
ResultLines(res) ==
    IF res = <<>> THEN <<>>
    ELSE no_empties(Split(res[1][2], "\n")) \o ResultLines(Tail(res))

\* the two write() calls of data row number row ("command")
PrettyRow(result, result_lines, options, row) ==
    LET g(key) == Glyph(key, options.style)
        L == options.left_len
        W == options.width
    IN  <<IF row <= Len(result.names)
          THEN <<g("side"), " ">> \o result.names[row]
               \o Rep(" ", L - Len(result.names[row]))
               \o <<" ", g("side"), " ">>
          ELSE <<g("side"), " ">> \o Rep(" ", L) \o <<" ", g("side"), " ">>,
          IF row <= Len(result_lines)
          THEN result_lines[row]
               \o Rep(" ", W - L - 7 - Len(result_lines[row]))
               \o <<" ", g("side"), "\n">>
          ELSE Rep(" ", W - L - 7) \o <<" ", g("side"), "\n">> >>

RECURSIVE PrettyRows(_, _, _, _, _)
PrettyRows(result, result_lines, options, row, max_length) ==
    IF row > max_length THEN <<>>
    ELSE PrettyRow(result, result_lines, options, row)
         \o PrettyRows(result, result_lines, options, row + 1, max_length)

\* the write() calls of _pretty_result for the group at position index
_pretty_result(result, options, index) ==
    LET g(key) == Glyph(key, options.style)
        L == options.left_len
        W == options.width
        J == Len(options.jump_host)
        result_lines == ResultLines(result.results)
        max_length == IF Len(result_lines) > Len(result.names)
                      THEN Len(result_lines) ELSE Len(result.names)
    IN  << IF index = 0 /\ options.jump_host # <<>>
           THEN <<g("side_left")>> \o Rep(g("top"), L + 2)
                \o <<g("middle")>> \o Rep(g("top"), W - L - 17 - J)
                \o <<g("bot_up")>> \o Rep(g("top"), J + 11)
                \o <<g("side_right"), "\n">>
           ELSE <<g("side_left")>> \o Rep(g("top"), L + 2)
                \o <<g("middle")>> \o Rep(g("top"), W - L - 5)
                \o <<g("side_right"), "\n">> >>
        \o PrettyRows(result, result_lines, options, 1, max_length)

\* consolidated_results.index(result): the first equal group
IndexOf(res, k) ==
    (CHOOSE j \in 1 .. k : res[j] = res[k] /\ \A m \in 1 .. j - 1 : res[m] # res[k])
    - 1

RECURSIVE PrettyGroups(_, _, _)
PrettyGroups(res, options, k) ==
    IF k > Len(res) THEN <<>>
    ELSE _pretty_result(res[k], options, IndexOf(res, k))
         \o PrettyGroups(res, options, k + 1)

\* the write() calls of pretty_results, in order
pretty_results(res, opts) ==
    LET p == prepare_results(res, opts)
        options == p.options
        g(key) == Glyph(key, options.style)
    IN  pretty_header(options)
        \o PrettyGroups(p.results, options, 1)
        \o << <<g("bot_left")>> \o Rep(g("bot"), options.left_len + 2)
               \o <<g("bot_up")>>
               \o Rep(g("bot"), options.width - options.left_len - 5)
               \o <<g("bot_right"), "\n">> >>

PrettyNames == {<<"a">>, Rep("b", 7)}
PrettyTexts ==
    {<<>>, <<"x">>, <<"x", "\n", "\n", "y", "\n", "z">>, Rep("x", 17),
     Rep("x", MaxCell)}
PrettyHosts == [name : PrettyNames, results : {<< <<"c", t>> >> : t \in PrettyTexts}]
PrettyGroupsIn ==
    [names : {<< <<"a">> >>, << <<"a">>, Rep("b", 7) >>,
              << <<"a">>, <<"a", "a">>, <<"a">> >>},
     results : {<< <<"c", t>> >> : t \in PrettyTexts}]
PrettyOptions ==
    [style : {0, 1}, width : {40, 80}, jump_host : {<<>>, <<"j", "h">>}]

InitPretty ==
    /\ InitPure
    /\ xin \in [results : UNION {[1 .. n -> PrettyHosts] : n \in 1 .. 2}
                           \cup {<<r>> : r \in PrettyGroupsIn},
                 options : PrettyOptions]

CallPrettyResults ==
    /\ xpc = "ready"
    /\ xout' = pretty_results(xin.results, xin.options)
    /\ xpc' = "done"
    /\ UNCHANGED <<xin, svars, results, finalresults, input, cpc, fvars>>

NextPretty == CallPrettyResults

SpecPretty == InitPretty /\ [][NextPretty]_vars

\* ---- stacked_results() ----
MaxNames == 5         \* names of the group given to stacked_results

\* sum([len(x) for x in line])
RECURSIVE SumLen(_)
SumLen(line) == IF line = <<>> THEN 0 ELSE Len(line[1]) + SumLen(Tail(line))

\* "if currently + (len(name) * 2) + 1 < options['width']"
NameFits(line, name, width) ==
    SumLen(line) + Len(line) + (Len(name) * 2) + 1 < width

\* the loop "for name in result_set['names']" and the append after it
RECURSIVE ServerLines(_, _, _, _)
ServerLines(names, line, server_lines, width) ==
    IF names = <<>>
    THEN Append(server_lines, Join(line, <<",", " ">>))
    ELSE IF NameFits(line, Head(names), width)
    THEN ServerLines(Tail(names), Append(line, Head(names)), server_lines,
                     width)
    ELSE ServerLines(Tail(names), <<Head(names)>>,
                     Append(server_lines,
                            StripChars(Join(Append(line, <<>>), <<",", " ">>),
                                       Whitespace)),
                     width)

RECURSIVE StackedWrites(_, _)
StackedWrites(res, k) ==
    IF k > Len(res[1]) THEN <<>>
    ELSE <<res[1][k][2] \o <<"\n">> >> \o StackedWrites(res, k + 1)

\* the write() calls of stacked_results, each with its end
RECURSIVE StackedFrom(_, _, _)
StackedFrom(res, options, k) ==
    IF k > Len(res) THEN <<>>
    ELSE (IF k > 1 THEN <<Rep("=", options.width) \o <<"\n">> >> ELSE <<>>)
         \o <<Join(ServerLines(res[k].names, <<>>, <<>>, options.width),
                   <<"\n">>) \o <<"\n">>,
               Rep("-", options.width) \o <<"\n">> >>
         \o StackedWrites(<<res[k].results>>, 1)
         \o StackedFrom(res, options, k + 1)

stacked_results(res, opts) ==
    LET p == prepare_results(res, opts)
    IN  StackedFrom(p.results, p.options, 1)

StackedNames == {<<"a">>, Rep("b", 4)}

InitStacked ==
    /\ InitPure
    /\ xin \in [results :
                    {<<[names |-> n, results |-> << <<"c", <<"x">> >> >>]>> :
                        n \in UNION {[1 .. m -> StackedNames] :
                                        m \in 1 .. MaxNames}},
                 options : [style : {0}, width : {10, 12},
                            jump_host : {<<>>}]]

CallStackedResults ==
    /\ xpc = "ready"
    /\ xout' = stacked_results(xin.results, xin.options)
    /\ xpc' = "done"
    /\ UNCHANGED <<xin, svars, results, finalresults, input, cpc, fvars>>

NextStacked == CallStackedResults

SpecStacked == InitStacked /\ [][NextStacked]_vars

\* ---- networking: ips_in_subnet() ----
\* A descriptor is its "/"-separated parts, a part its "."-separated
\* quadrants, a quadrant a text that int() reads as val or does not read.
\* A binary string is a sequence of 0 and 1.
MaxHostBits == 3      \* host bits of the masks given to ips_in_subnet

Num(v) == [num |-> TRUE, val |-> v]
NaN == [num |-> FALSE, val |-> 0]

Pow2(n) == 2 ^ n

\* bin(v)[2:].rjust(w, "0") for 0 <= v < 2^w
Bits(v, w) == [k \in 1 .. w |-> (v \div Pow2(w - k)) % 2]

\* int(binary, 2)
RECURSIVE Value(_)
Value(binary) ==
    IF binary = <<>> THEN 0
    ELSE 2 * Value(SubSeq(binary, 1, Len(binary) - 1)) + binary[Len(binary)]

Ok(binary) == [st |-> "ok", bits |-> binary]
NoneResult == [st |-> "None", bits |-> <<>>]
ValueError == [st |-> "ValueError", bits |-> <<>>]

\* "{0:b}".format(int(joined, 2)).rjust(32, "0")
RECURSIVE StripZeros(_)
StripZeros(binary) ==
    IF Len(binary) > 1 /\ binary[1] = 0 THEN StripZeros(Tail(binary))
    ELSE binary

_quadrant_to_binary_unpadded(quadrant) ==
    IF ~quadrant.num THEN ValueError
    ELSE IF 0 <= quadrant.val /\ quadrant.val <= 255
    THEN Ok(StripZeros(Bits(quadrant.val, 8)))
    ELSE NoneResult

_quadrant_to_binary(quadrant) ==
    IF ~quadrant.num THEN ValueError
    ELSE IF 0 <= quadrant.val /\ quadrant.val <= 255
    THEN Ok(Bits(quadrant.val, 8))
    ELSE NoneResult

Rjust(binary, w) ==
    IF Len(binary) >= w THEN binary
    ELSE [k \in 1 .. w - Len(binary) |-> 0] \o binary

RECURSIVE JoinQuadrants(_, _)
JoinQuadrants(quadrants, full_binary) ==
    IF quadrants = <<>> THEN Ok(full_binary)
    ELSE LET quad_binary == _quadrant_to_binary(Head(quadrants))
         IN  IF quad_binary.st # "ok" THEN quad_binary
             ELSE JoinQuadrants(Tail(quadrants),
                                full_binary \o quad_binary.bits)

_ip_to_binary(ip_addr) ==
    LET joined == JoinQuadrants(ip_addr, <<>>)
    IN  IF joined.st # "ok" THEN joined
        ELSE Ok(Rjust(StripZeros(joined.bits), 32))

\* the dotted quads of a binary string, as the numbers their texts show
_binary_to_ip(binary) ==
    [q \in 1 .. (Len(binary) + 7) \div 8 |->
        Value(SubSeq(binary, 8 * q - 7,
                     IF 8 * q <= Len(binary) THEN 8 * q ELSE Len(binary)))]

\* (network, netmask); st is "None" for (None, None)
_subnet_to_binary(subnet) ==
    IF Len(subnet) # 2
    THEN [st |-> "None", net |-> NoneResult, mask |-> NoneResult]
    ELSE LET net == subnet[1]
             mask == subnet[2]
             binary_mask ==
                 IF Len(mask) = 1
                 THEN IF ~mask[1].num THEN ValueError
                      ELSE IF 0 <= mask[1].val /\ mask[1].val <= 32
                      THEN Ok([k \in 1 .. 32 |->
                                 IF k <= mask[1].val THEN 1 ELSE 0])
                      ELSE NoneResult
                 ELSE _ip_to_binary(mask)
         IN  IF Len(mask) = 1 /\ binary_mask.st = "None"
             THEN [st |-> "None", net |-> NoneResult, mask |-> NoneResult]
             ELSE IF binary_mask.st = "ValueError"
             THEN [st |-> "ValueError", net |-> NoneResult,
                   mask |-> NoneResult]
             ELSE IF _ip_to_binary(net).st = "ValueError"
             THEN [st |-> "ValueError", net |-> NoneResult,
                   mask |-> NoneResult]
             ELSE [st |-> "ok", net |-> _ip_to_binary(net),
                   mask |-> binary_mask]

\* "for i in range(32): if binary_mask[i] != '1'", 32 for the loop's else
FirstZero(binary_mask) ==
    IF \A k \in 1 .. 32 : binary_mask[k] = 1 THEN 32
    ELSE (CHOOSE k \in 1 .. 32 :
             /\ binary_mask[k] # 1
             /\ \A m \in 1 .. k - 1 : binary_mask[m] = 1) - 1

\* int("1" * (32 - i), 2)
subnet_range_plus_one(i) == Pow2(32 - i)

subnet_range(i) == Pow2(32 - i) - 1

\* range(1, subnet_range)
HostRange_from_zero(n) == [k \in 1 .. n |-> k - 1]

HostRange(n) == [k \in 1 .. n - 1 |-> k]

ips_in_subnet(subnet) ==
    LET b == _subnet_to_binary(subnet) IN
    IF b.st = "ValueError" THEN [st |-> "ValueError", members |-> <<>>]
    ELSE IF b.st = "None" \/ b.mask.st = "None" \/ b.net.st = "None"
    THEN [st |-> "None", members |-> <<>>]
    ELSE LET i == FirstZero(b.mask.bits)
             network_section == SubSeq(b.net.bits, 1, i)
             hosts == HostRange(subnet_range(i))
         IN  IF i = 32
             THEN [st |-> "list", members |-> <<_binary_to_ip(b.net.bits)>>]
             ELSE [st |-> "list",
                   members |->
                      [k \in DOMAIN hosts |->
                          _binary_to_ip(network_section
                                        \o Bits(hosts[k], 32 - i))]]

OctetTokens == {Num(10), Num(255), Num(256), NaN}
LastOctetTokens ==
    {Num(0), Num(1), Num(5), Num(255), Num(256), Num(0 - 1), NaN}
Nets ==
    {<<a, b, c, e>> : a \in OctetTokens, b \in OctetTokens, c \in OctetTokens,
                      e \in LastOctetTokens}
PrefixTokens ==
    {Num(m) : m \in 32 - MaxHostBits .. 33} \cup {Num(0 - 1), NaN}
DottedMasks ==
    {<<Num(255), Num(255), Num(255), m>> :
        m \in {Num(256 - Pow2(k)) : k \in 0 .. MaxHostBits}
              \cup {Num(253), Num(256), NaN}}
Descriptors ==
    {<<n>> : n \in Nets}
    \cup {<<n, <<m>> >> : n \in Nets, m \in PrefixTokens}
    \cup {<<n, m>> : n \in Nets, m \in DottedMasks}
    \cup {<<n, <<Num(30)>>, <<Num(30)>> >> : n \in Nets}

InitSubnet ==
    /\ InitPure
    /\ xin \in Descriptors

CallIpsInSubnet ==
    /\ xpc = "ready"
    /\ xout' = ips_in_subnet(xin)
    /\ xpc' = "done"
    /\ UNCHANGED <<xin, svars, results, finalresults, input, cpc, fvars>>

NextSubnet == CallIpsInSubnet

SpecSubnet == InitSubnet /\ [][NextSubnet]_vars

\* one mask in its two forms: the prefix length and the dotted quads
DottedOf(prefix) ==
    [q \in 1 .. 4 |->
        Num(Value([k \in 1 .. 8 |-> IF 8 * (q - 1) + k <= prefix THEN 1 ELSE 0]))]

FormNets ==
    {<<Num(a), Num(b), Num(c), Num(e)>> :
        a \in {10, 255}, b \in {10, 255}, c \in {10, 255},
        e \in (0 .. 2 * Pow2(MaxHostBits) - 1) \cup {254, 255}}

InitForms ==
    /\ InitPure
    /\ xin \in [net : FormNets, prefix : 32 - MaxHostBits .. 30]

\* ips_in_subnet("A/N") and ips_in_subnet("A/E.F.G.H") for the same mask
CallBothForms ==
    /\ xpc = "ready"
    /\ xout' = [prefix |-> ips_in_subnet(<<xin.net, <<Num(xin.prefix)>> >>),
                dotted |-> ips_in_subnet(<<xin.net, DottedOf(xin.prefix)>>)]
    /\ xpc' = "done"
    /\ UNCHANGED <<xin, svars, results, finalresults, input, cpc, fvars>>

NextForms == CallBothForms

SpecForms == InitForms /\ [][NextForms]_vars

\* ---- the scheduler: one worker, the targets in input order ----
MaxTargets == 2       \* targets of one job
MaxCmds == 2          \* commands of one job

CommandList(m) == [i \in 1 .. m |-> IF i % 2 = 1 THEN "c1" ELSE "c2"]

TargetList(n) == [i \in 1 .. n |-> Sessions[2 - (i % 2)]]

Jobs ==
    [targets : {TargetList(n) : n \in 1 .. MaxTargets},
     commands : {CommandList(m) : m \in 0 .. MaxCmds}]

\* did the transport open the target in the connect() that just returned
ConnectOpened(t) ==
    /\ ccalls[t] # <<>>
    /\ ccalls[t][Len(ccalls[t])][1] = "open_target"
    /\ ccalls[t][Len(ccalls[t])][2] = "ok"

\* the worker takes the next target and builds its session (sshr = False)
dispatch(t) ==
    /\ wpc = "take"
    /\ pc[t] = "idle"
    /\ Len(fresults) < Len(job.targets)
    /\ LET target == job.targets[Len(fresults) + 1] IN
          /\ self' = [self EXCEPT ![t] = target]
          /\ sshr' = [sshr EXCEPT ![target] = SSHR_FALSE]
    /\ wresults' = <<>>
    /\ wpc' = "connect"
    /\ UNCHANGED <<jump_host, sshc, handles, threads, ctl, locals, hist, results,
                   finalresults, input, cpc, xvars, job, fresults, fconnected>>

worker_connect(t) ==
    /\ wpc = "connect"
    /\ Begin(t, "connect")
    /\ status_return' = [status_return EXCEPT ![t] = TRUE]
    /\ wpc' = "connecting"
    /\ UNCHANGED <<jump_host, sshr, sshc, handles, self, threads, arg, command,
                   results, finalresults, input, cpc, xvars, job, wresults,
                   fresults, fconnected>>

\* connect() returned: a target that failed to connect gets the one
\* synthetic error entry, the others get their commands run
worker_connected(t) ==
    /\ wpc = "connecting"
    /\ pc[t] = "idle"
    /\ fconnected' = Append(fconnected, ConnectOpened(t))
    /\ IF ret[t] = <<"True">>
       THEN /\ wresults' = wresults
            /\ wpc' = IF job.commands = <<>> THEN "end" ELSE "run"
       ELSE /\ wresults' = << <<"login", <<"connect_failed">> >> >>
            /\ wpc' = "end"
    /\ UNCHANGED <<svars, results, finalresults, input, cpc, xvars, job, fresults>>

\* the commands of one target one after the other, in the order given
worker_run(t) ==
    /\ wpc = "run"
    /\ Begin(t, "run")
    /\ command' = [command EXCEPT ![t] = job.commands[Len(wresults) + 1]]
    /\ wpc' = "running"
    /\ UNCHANGED <<jump_host, sshr, sshc, handles, self, threads, arg,
                   status_return, results, finalresults, input, cpc, xvars, job,
                   wresults, fresults, fconnected>>

worker_result(t) ==
    /\ wpc = "running"
    /\ pc[t] = "idle"
    /\ wresults' = Append(wresults, <<command[t], ret[t]>>)
    /\ wpc' = IF Len(wresults) + 1 = Len(job.commands) THEN "end" ELSE "run"
    /\ UNCHANGED <<svars, results, finalresults, input, cpc, xvars, job, fresults,
                   fconnected>>

\* the session is closed when the target's command sequence is over
worker_end(t) ==
    /\ wpc = "end"
    /\ Begin(t, "end")
    /\ wpc' = "ending"
    /\ UNCHANGED <<jump_host, sshr, sshc, handles, self, threads, locals, results,
                   finalresults, input, cpc, xvars, job, wresults, fresults,
                   fconnected>>

\* one HostResult per target, at the target's position
worker_done(t) ==
    /\ wpc = "ending"
    /\ pc[t] = "idle"
    /\ fresults' = Append(fresults, [name |-> self_server(t),
                                     results |-> wresults])
    /\ wpc' = "take"
    /\ UNCHANGED <<svars, results, finalresults, input, cpc, xvars, job, wresults,
                   fconnected>>

\* the barrier: every target has its HostResult
join ==
    /\ wpc = "take"
    /\ Len(fresults) = Len(job.targets)
    /\ wpc' = "joined"
    /\ UNCHANGED <<svars, results, finalresults, input, cpc, xvars, job, wresults,
                   fresults, fconnected>>

InitFanout ==
    /\ jump_host \in BOOLEAN
    /\ threads = {1}
    /\ InitSessionState
    /\ job \in Jobs
    /\ wpc = "take"
    /\ wresults = <<>>
    /\ fresults = <<>>
    /\ fconnected = <<>>

\* connect failures, timeouts and connection losses are what the transport
\* answers here
NextFanout ==
    \/ \E t \in threads : dispatch(t)
    \/ \E t \in threads : worker_connect(t)
    \/ \E t \in threads : worker_connected(t)
    \/ \E t \in threads : worker_run(t)
    \/ \E t \in threads : worker_result(t)
    \/ \E t \in threads : worker_end(t)
    \/ \E t \in threads : worker_done(t)
    \/ join
    \/ \E t \in threads : connect(t)
    \/ \E t \in threads, out \in {"ok", "fail"} : open_jump(t, out)
    \/ \E t \in threads, out \in {"ok", "fail"} : open_target(t, out)
    \/ \E t \in threads : end(t)
    \/ \E t \in threads : close_target(t, "ok")
    \/ \E t \in threads : close_jump(t, "ok")
    \/ \E t \in threads : _login_if_not_already(t)
    \/ \E t \in threads : login_check(t)
    \/ \E t \in threads : _reconnect(t)
    \/ \E t \in threads : reconnect_connect(t)
    \/ \E t \in threads : reconnect_return(t)
    \/ \E t \in threads : run(t)
    \/ \E t \in threads : run_connection(t)
    \/ \E t \in threads, out \in {"ok", "noresp", "err5"} :
          _send_cmd(t, out, "o1")
    \/ \E t \in threads : run_reconnected(t)

SpecFanout == InitFanout /\ [][NextFanout]_vars

\* ---- what the claims speak about ----
Done(t, name) == pc[t] = "idle" /\ op[t] = name
Returned(t) == ret[t][1] # "raised"
LastCall(t) == calls[t][Len(calls[t])]
LastOpenTarget(t) ==
    LET S == {i \in DOMAIN calls[t] :
                 calls[t][i][1] = "open_target" /\ calls[t][i][2] = "ok"}
    IN  IF S = {} THEN 0
        ELSE calls[t][CHOOSE i \in S : \A j \in S : j <= i][3]

\* C1: within one run() the command is sent at most twice and at most one
\* reconnect is attempted, whatever the transport answers.
C1_AtMostOneRetry ==
    \A t \in threads :
        op[t] = "run" => Sends(t) <= 2 /\ Reconnects(t) <= 1

\* C2: one dropped send, then a reconnect whose opens succeed, and no other
\* send of this run() answered with anything but text: run() has resent the
\* command once, returns the text the resend returned, and self.sshr is the
\* handle the reconnect opened (a new handle, the one the resend used).
SingleDropHealed(t) ==
    /\ Done(t, "run")
    /\ Returned(t)
    /\ Reconnects(t) = 1
    /\ \E i, j \in DOMAIN calls[t] :
          /\ i < j
          /\ calls[t][i][1] = "_reconnect"
          /\ calls[t][j][1] = "open_target"
          /\ calls[t][j][2] = "ok"
    /\ \A i \in DOMAIN calls[t] :
          calls[t][i][1] = "send" /\ calls[t][i][2] # "err5" =>
              calls[t][i][2] = "ok"

C2_ReconnectReturnsOutput ==
    \A t \in threads :
        SingleDropHealed(t) =>
            /\ Sends(t) = 2
            /\ LastCall(t)[1] = "send"
            /\ LastCall(t)[2] = "ok"
            /\ ret[t] = <<"output", LastCall(t)[4]>>
            /\ sshr[self[t]] > 0
            /\ sshr[self[t]] = LastOpenTarget(t)
            /\ sshr[self[t]] = LastCall(t)[3]
            /\ sshr[self[t]] # sshr0[t]
            /\ ~handles[sshr[self[t]]].closed

C2_Witness ==
    \E t \in threads :
        SingleDropHealed(t) /\ sshr0[t] > 0 /\ ret[t][1] = "output"

\* C3: a dropped send followed by a reconnect that fails makes run() return
\* "connection to <target> was lost" with self.sshr None; every later run()
\* returns "connection to <target> is closed" and calls no open and no send.
ReconnectFailed(t) ==
    /\ Done(t, "run")
    /\ Returned(t)
    /\ Reconnects(t) >= 1
    /\ LastCall(t)[1] # "send"

AfterLost(t) ==
    /\ op[t] = "run"
    /\ prev[t].op = "run"
    /\ \/ prev[t].ret[1] = "was_lost"
       \/ prev[t].ret[1] = "is_closed" /\ prev[t].sshr0 = SSHR_NONE

C3_LostThenClosed ==
    \A t \in threads :
        /\ ReconnectFailed(t) =>
              /\ ret[t] = <<"was_lost", self_server(t)>>
              /\ sshr[self[t]] = SSHR_NONE
        /\ AfterLost(t) =>
              /\ calls[t] = <<>>
              /\ sshr[self[t]] = SSHR_NONE
              /\ pc[t] = "idle" => ret[t] = <<"is_closed", self_server(t)>>

C3_Witness ==
    \E t \in threads :
        /\ Done(t, "run")
        /\ prev[t].op = "run"
        /\ prev[t].ret[1] = "was_lost"
        /\ prev[t].last[1] \in {"open_jump", "open_target"}
        /\ prev[t].last[2] = "fail"
        /\ ret[t][1] = "is_closed"

\* C4: a connect() that fails on a session that was never connected leaves
\* the session Closed: a later run() returns the closed marker and does not
\* call the transport's open again.
C4_FailedConnectCloses ==
    \A t \in threads :
        /\ op[t] = "run"
        /\ prev[t].op = "connect"
        /\ prev[t].sshr0 = SSHR_FALSE
        /\ prev[t].last[2] = "fail"
        => /\ calls[t] = <<>>
           /\ pc[t] = "idle" => ret[t] = <<"is_closed", self_server(t)>>

\* C5: a connect() opens the jump host first and the target second; when the
\* jump open fails it makes no target open; without a jump host it makes
\* the target open only.
C5_JumpBeforeTarget ==
    \A t \in threads :
        LET c == ccalls[t] IN
        IF jump_host
        THEN /\ Len(c) <= 2
             /\ Len(c) >= 1 => c[1][1] = "open_jump"
             /\ Len(c) = 2 => c[1][2] = "ok" /\ c[2][1] = "open_target"
        ELSE /\ Len(c) <= 1
             /\ Len(c) = 1 => c[1][1] = "open_target"

C5_Witness ==
    \E t \in threads :
        /\ jump_host
        /\ Done(t, "connect")
        /\ Len(ccalls[t]) = 1
        /\ ccalls[t][1][2] = "fail"

\* C6: a send answered with the no-response sentinel ends run() at once
\* with "did not return after issuing: <command>"; nothing is closed or
\* reopened, self.sshr is still the handle sent on, and the next run()
\* sends on that handle first.
C6_NoResponseKeepsSession ==
    \A t \in threads :
        /\ \A i \in DOMAIN calls[t] :
              calls[t][i][1] = "send" /\ calls[t][i][2] = "noresp" =>
                  /\ i = Len(calls[t])
                  /\ pc[t] = "idle"
                  /\ ret[t] = <<"did_not_return", command[t]>>
                  /\ sshr[self[t]] = calls[t][i][3]
                  /\ sshr[self[t]] > 0
        /\ /\ op[t] = "run"
           /\ prev[t].op = "run"
           /\ prev[t].ret[1] = "did_not_return"
           => /\ pc[t] = "idle" => calls[t] # <<>>
              /\ calls[t] # <<>> =>
                    /\ calls[t][1][1] = "send"
                    /\ calls[t][1][3] = prev[t].last[3]

C6_Witness ==
    \E t \in threads :
        /\ Done(t, "run")
        /\ prev[t].op = "run"
        /\ prev[t].ret[1] = "did_not_return"
        /\ calls[t] # <<>>

\* C7: an end() that returns normally leaves self.sshr None, from any
\* state; an end() that follows it calls no transport close.
C7_EndIdempotent ==
    \A t \in threads :
        /\ Done(t, "end") /\ Returned(t) => sshr[self[t]] = SSHR_NONE
        /\ /\ op[t] = "end"
           /\ prev[t].op = "end"
           /\ prev[t].ret = <<"None">>
           => /\ calls[t] = <<>>
              /\ pc[t] = "idle" => Returned(t)

C7_Witness ==
    \E t \in threads :
        /\ Done(t, "end")
        /\ prev[t].op = "end"
        /\ prev[t].ret = <<"None">>
        /\ prev[t].sshr0 > 0

\* C8: after an end() that returned normally, close has been called on
\* every handle the session opened, target and jump.
C8_EndClosesAllOpened ==
    \A t \in threads :
        Done(t, "end") /\ Returned(t) =>
            \A h \in DOMAIN handles :
                handles[h].owner = self[t] => handles[h].closed

\* C9: a session's end() closes only a jump handle that this session
\* opened, never one opened by the other session.
C9_JumpHandleOwned ==
    \A t \in threads : \A i \in DOMAIN calls[t] :
        calls[t][i][1] = "close_jump" =>
            /\ calls[t][i][3] \in DOMAIN handles
            /\ handles[calls[t][i][3]].owner = self[t]

\* the groups consolidate() returned
Groups == [k \in DOMAIN finalresults |-> results[finalresults[k]]]
Count(seq, x) == Cardinality({p \in DOMAIN seq : seq[p] = x})

\* C10: consolidate() partitions its input: each input's results are the
\* results of exactly one group, and a group's names are, with their
\* multiplicities, the names of exactly the inputs whose (command, output)
\* sequence equals the group's.
C10_ConsolidatePartition ==
    cpc = "done" =>
        /\ \A i \in DOMAIN input :
              Cardinality({k \in DOMAIN Groups :
                              Groups[k].results = input[i].results}) = 1
        /\ \A k \in DOMAIN Groups :
              /\ DOMAIN Groups[k] = {"names", "results"}
              /\ Len(Groups[k].names) >= 1
              /\ \A n \in Names :
                    Count(Groups[k].names, n) =
                        Cardinality({i \in DOMAIN input :
                            /\ input[i].name = n
                            /\ input[i].results = Groups[k].results})

C10_Witness ==
    /\ cpc = "done"
    /\ Len(input) = 3
    /\ Len(finalresults) = 2
    /\ input[1].results = input[3].results
    /\ input[1].results # input[2].results
    /\ input[1].name = input[3].name

\* the names of the inputs whose results are r, in input order
NamesOf(r) ==
    LET sel == SelectSeq(input, LAMBDA h : h.results = r)
    IN  [p \in DOMAIN sel |-> sel[p].name]
FirstWith(r) ==
    CHOOSE i \in DOMAIN input :
        /\ input[i].results = r
        /\ \A j \in DOMAIN input : input[j].results = r => i <= j

\* C11: consolidate() is order-stable: the groups come in the order of the
\* input position of their first member, and the names of a group are the
\* names of its members in input order.
C11_ConsolidateOrderStable ==
    cpc = "done" =>
        /\ \A k \in DOMAIN Groups :
              /\ \E i \in DOMAIN input : input[i].results = Groups[k].results
              /\ finalresults[k] = FirstWith(Groups[k].results)
              /\ Groups[k].names = NamesOf(Groups[k].results)
        /\ \A k, l \in DOMAIN Groups :
              k < l => finalresults[k] < finalresults[l]

C11_Witness ==
    /\ cpc = "done"
    /\ Len(input) = 3
    /\ Len(finalresults) = 2
    /\ input[1].results = input[3].results
    /\ input[1].name = "b"
    /\ input[3].name = "a"
    /\ Groups[1].names = <<"b", "a">>

\* C12: consolidate() leaves the HostResult records of its input unchanged,
\* and a second consolidate() of the same list gives the same outcome.
C12_InputUnchanged ==
    /\ cpc \in {"done", "again"} => results = input
    /\ cpc # "KeyError"

\* the passwords configured in the options given to format_line
Configured ==
    UNION {{xin.options[k][p] : p \in DOMAIN xin.options[k]} :
              k \in DOMAIN xin.options}

\* C13: the line format_line returns contains no configured password,
\* whatever the passwords are.
C13_NoSecretInOutput ==
    xpc = "done" => \A p \in Configured : ~Contains(xout, p)

\* C13 as amended: the line format_line returns contains no configured
\* password that is free of '*', and it is the cleaned line with some
\* characters replaced by '*'.
HasStar(p) == \E k \in DOMAIN p : p[k] = "*"

C13_NoStarFreeSecretInOutput ==
    xpc = "done" =>
        /\ \A p \in Configured : ~HasStar(p) => ~Contains(xout, p)
        /\ Len(xout) = Len(CleanLine(xin.line))
        /\ \A i \in DOMAIN xout : xout[i] \in {CleanLine(xin.line)[i], "*"}

C13_Witness ==
    /\ xpc = "done"
    /\ xin.line = <<" ", "a", "b", "a">>
    /\ xin.options.password = << <<"a", "b">> >>
    /\ xin.options.second_password = << <<"b", "a">> >>
    /\ xout = <<"*", "*", "a">>

\* a field wrapped in double quotes iff it holds a space or the separator
QuotedIfNeeded(field, csv) ==
    IF Contains(field, <<" ">>) \/ Contains(field, csv)
    THEN <<"\"">> \o field \o <<"\"">> ELSE field

\* C14: in the row csv_results writes, the server names, the command and
\* the result are each wrapped in double quotes if and only if the field
\* contains a space or the separator.
C14_QuotedIffSpaceOrSeparator ==
    xpc = "done" =>
        LET csv == csv_char_of(xin.options)
            srv == xin.results[1]
            f == CsvFields(srv, srv.results[1][1], srv.results[1][2])
        IN  xout[2] = QuotedIfNeeded(f[1], csv) \o csv
                      \o QuotedIfNeeded(f[2], csv) \o csv
                      \o QuotedIfNeeded(f[3], csv) \o <<"\r", "\n">>

\* the results of HostResult n are one entry per command, in the order the
\* commands were given
OnePerCommand(n) ==
    /\ Len(fresults[n].results) = Len(job.commands)
    /\ \A i \in DOMAIN job.commands :
          fresults[n].results[i][1] = job.commands[i]

Held(sink) == [i \in DOMAIN sink |-> sink[i][1]]
Rendered == [i \in DOMAIN xin.pieces |-> i]
RenderEnded == xpc \in {"done", "SystemExit"}

\* C16: when a render ends, completed, aborted or redirected, every
\* destination that received content holds the complete rendered text.
C16_AllOrNothing ==
    RenderEnded =>
        /\ \A f \in FileNames :
              xout.files[f] # <<>> => Held(xout.files[f]) = Rendered
        /\ xout.stdout # <<>> => Held(xout.stdout) = Rendered

\* what a descriptor says, read without the code
HasSlash == Len(xin) = 2
InOctet(tok) == tok.num /\ 0 <= tok.val /\ tok.val <= 255
ValidNet == Len(xin[1]) = 4 /\ \A k \in 1 .. 4 : InOctet(xin[1][k])
Malformed ==
    \/ Len(xin) = 1
    \/ \E q \in DOMAIN xin[1] : ~InOctet(xin[1][q])
    \/ /\ Len(xin) = 2
       /\ \/ Len(xin[2]) = 1 /\ ~xin[2][1].num
          \/ Len(xin[2]) = 1 /\ ~(0 <= xin[2][1].val /\ xin[2][1].val <= 32)
          \/ Len(xin[2]) > 1 /\ \E q \in DOMAIN xin[2] : ~InOctet(xin[2][q])

\* C17: ips_in_subnet returns None and never raises for a descriptor with
\* no slash, a non-numeric octet or prefix, an octet outside 0..255 or a
\* prefix length outside 0..32.
C17_MalformedGivesNone ==
    (xpc = "done" /\ Malformed) => xout.st = "None"

\* the mask's leading one bits and the host bits left, read from the
\* descriptor: a prefix length, or the last quadrant of 255.255.255.m
LeadingOnes(m) ==
    CHOOSE k \in 0 .. 8 :
        /\ m \div Pow2(8 - k) = Pow2(k) - 1
        /\ k < 8 => (m \div Pow2(7 - k)) % 2 = 0
PrefixLen == IF Len(xin[2]) = 1 THEN xin[2][1].val
             ELSE 24 + LeadingOnes(xin[2][4].val)
HostBits == 32 - PrefixLen
Valid == HasSlash /\ ~Malformed
\* the address with host value h in the given network
Member(h) ==
    <<xin[1][1].val, xin[1][2].val, xin[1][3].val,
      xin[1][4].val - (xin[1][4].val % Pow2(HostBits)) + h>>

\* C18: for a valid descriptor with hostBits host bits the list holds one
\* address for every host value 1 .. 2^hostBits - 1, the all-ones value
\* included: 2^hostBits - 1 entries, the last with all host bits set.
C18_AllOnesKept ==
    (xpc = "done" /\ Valid /\ HostBits >= 1) =>
        /\ xout.st = "list"
        /\ Len(xout.members) = Pow2(HostBits) - 1
        /\ xout.members[Len(xout.members)] = Member(Pow2(HostBits) - 1)
        /\ \A k \in DOMAIN xout.members : xout.members[k] # Member(0)

\* C18 amended: the all-zero and the all-ones host values are both
\* skipped: 2^hostBits - 2 entries, host values 1 .. 2^hostBits - 2.
C18_AllOnesSkipped ==
    (xpc = "done" /\ Valid /\ HostBits >= 1) =>
        /\ xout.st = "list"
        /\ Len(xout.members) = Pow2(HostBits) - 2
        /\ \A k \in DOMAIN xout.members :
              /\ xout.members[k] # Member(0)
              /\ xout.members[k] # Member(Pow2(HostBits) - 1)
        /\ HostBits >= 2 =>
              /\ xout.members[1] = Member(1)
              /\ xout.members[Len(xout.members)] = Member(Pow2(HostBits) - 2)

C18_Witness ==
    /\ xpc = "done"
    /\ xin = << <<Num(10), Num(10), Num(10), Num(0)>>, <<Num(30)>> >>
    /\ xout.members = << <<10, 10, 10, 1>>, <<10, 10, 10, 2>> >>

\* the numeric order of dotted quads
Before(a, b) ==
    \E q \in 1 .. 4 : a[q] < b[q] /\ \A r \in 1 .. q - 1 : a[r] = b[r]

\* C19: for a valid descriptor with prefix length i <= 30 the list is, in
\* ascending order and without duplicates, exactly the addresses of the
\* network with host part 1 .. 2^(32-i) - 2; the host bits of the address
\* given are ignored.
C19_AscendingHosts ==
    (xpc = "done" /\ Valid /\ PrefixLen <= 30) =>
        /\ xout.st = "list"
        /\ \A k \in DOMAIN xout.members : xout.members[k] = Member(k)
        /\ DOMAIN xout.members = 1 .. Pow2(32 - PrefixLen) - 2
        /\ \A k \in DOMAIN xout.members, m \in DOMAIN xout.members :
              k < m => Before(xout.members[k], xout.members[m])

C19_Witness ==
    /\ xpc = "done"
    /\ xin = << <<Num(10), Num(255), Num(10), Num(5)>>, <<Num(29)>> >>
    /\ Len(xout.members) = 6
    /\ xout.members[1] = <<10, 255, 10, 1>>
    /\ xout.members[6] = <<10, 255, 10, 6>>

\* C20: a bare valid dotted-quad address, no "/" and no mask, gives the
\* one-element list of that address.
C20_BareAddress ==
    (xpc = "done" /\ Len(xin) = 1 /\ ValidNet) =>
        /\ xout.st = "list"
        /\ xout.members = << [q \in 1 .. 4 |-> xin[1][q].val] >>

\* the address given, and its host part under the mask given
GivenAddress == [q \in 1 .. 4 |-> xin.net[q].val]
GivenHostPart == xin.net[4].val % Pow2(32 - xin.prefix)

\* C21: an address whose host part is neither all zeros nor all ones is a
\* member of its own subnet, and the prefix form and the dotted form of a
\* mask with at least two host bits give the same list.
C21_MemberAndFormsAgree ==
    xpc = "done" =>
        /\ xout.prefix = xout.dotted
        /\ xout.prefix.st = "list"
        /\ GivenHostPart \notin {0, Pow2(32 - xin.prefix) - 1} =>
              \E k \in DOMAIN xout.prefix.members :
                  xout.prefix.members[k] = GivenAddress

C21_Witness ==
    /\ xpc = "done"
    /\ xin.net = <<Num(10), Num(255), Num(10), Num(13)>>
    /\ xin.prefix = 29
    /\ Len(xout.dotted.members) = 6
    /\ xout.dotted.members[5] = <<10, 255, 10, 13>>

\* what was written, joined and cut into lines
RECURSIVE Concat(_)
Concat(pieces) == IF pieces = <<>> THEN <<>> ELSE pieces[1] \o Concat(Tail(pieces))
WrittenLines ==
    LET all == Split(Concat(xout), "\n") IN SubSeq(all, 1, Len(all) - 1)
FrameGlyphs ==
    {Glyph(key, xin.options.style) :
        key \in {"top_left", "top_right", "side_left", "side", "side_right",
                  "bot_left", "bot_right"}}
\* the groups shown, and the rows a group should take
ShownGroups == prepare_results(xin.results, xin.options).results
NonEmptyLines(res) ==
    Cardinality({k \in DOMAIN Split(res[1][2], "\n") :
                    Split(res[1][2], "\n")[k] # <<>>})
RowsOf(group) ==
    IF NonEmptyLines(group.results) > Len(group.names)
    THEN NonEmptyLines(group.results) ELSE Len(group.names)
RECURSIVE SumRows(_)
SumRows(groups) ==
    IF groups = <<>> THEN 0
    ELSE 1 + RowsOf(groups[1]) + SumRows(Tail(groups))

\* C22: every line pretty_results writes is exactly options["width"]
\* characters long with a frame glyph at both ends, and a group takes
\* max(names, non-empty result lines) data rows.
C22_EveryLineFullWidth ==
    xpc = "done" =>
        /\ \A k \in DOMAIN WrittenLines :
              /\ Len(WrittenLines[k]) = xin.options.width
              /\ WrittenLines[k][1] \in FrameGlyphs
              /\ WrittenLines[k][Len(WrittenLines[k])] \in FrameGlyphs
        /\ Len(WrittenLines) = 3 + SumRows(ShownGroups)

\* the names lines of the group: the first write, without its end
NamesLines == Split(SubSeq(xout[1], 1, Len(xout[1]) - 1), "\n")

\* C23: with every name shorter than the width, each names line that
\* stacked_results emits is at most options["width"] long and not empty,
\* and the lines hold every name once, in order.
C23_NamesWrapped ==
    (xpc = "done"
     /\ \A k \in DOMAIN xin.results[1].names :
           Len(xin.results[1].names[k]) < xin.options.width) =>
        /\ \A k \in DOMAIN NamesLines :
              /\ Len(NamesLines[k]) <= xin.options.width
              /\ NamesLines[k] # <<>>
        /\ Join(NamesLines, <<" ">>) = Join(xin.results[1].names, <<",", " ">>)

\* the cleaned, non-empty lines between the first and the last raw line
MiddleLines ==
    LET raw == Split(xin.output, "\n")
        cleaned == [k \in 1 .. Len(raw) - 2 |-> format_line(raw[k + 1], NoPasswords)]
        NonEmpty(l) == l # <<>>
    IN  SelectSeq(cleaned, NonEmpty)
HoldsSlice(line) ==
    \E k \in 1 .. Len(xin.command) - 29 :
        Contains(line, SubSeq(xin.command, k, k + 29))
IsEcho(line) == Len(xin.command) >= 60 /\ HoldsSlice(line)
NotEcho(line) == ~IsEcho(line)
OutputLines == IF xout = <<>> THEN <<>> ELSE Split(xout, "\n")

\* C24: format_output drops a cleaned non-empty line only when the command
\* has at least 60 characters and the line holds a 30-character slice of
\* it; every other such line is kept, in order.
C24_OnlyEchoesDropped ==
    xpc = "done" =>
        SelectSeq(OutputLines, NotEcho) = SelectSeq(MiddleLines, NotEcho)

\* the jump password the run is configured with
JumpPassword == get_passwords(xin.settings, xin.typed).jump_pass

\* C25: a jump password that differs from the primary and the second
\* password is replaced by "*" in a line formatted with the options the
\* command line builds.
C25_JumpPasswordRedacted ==
    (xpc = "done"
     /\ JumpPassword # <<>>
     /\ JumpPassword # get_passwords(xin.settings, xin.typed).password
     /\ JumpPassword # get_passwords(xin.settings, xin.typed).second_password)
        => ~Contains(xout.line, JumpPassword)

\* the transport's opens of the target that the threads made
TargetOpens ==
    {<<t, i>> \in Threads \X (1 .. MaxHandles + 2) :
        i \in DOMAIN calls[t] /\ calls[t][i][1] = "open_target"}

\* C26: threads started on one session that is not connected open the
\* target at most once between them, and an open target handle is the one
\* the session holds.
C26_OneOpenPerSession ==
    /\ Cardinality(TargetOpens) <= 1
    /\ \A h \in DOMAIN handles :
          (handles[h].kind = "target" /\ ~handles[h].closed)
              => sshr[Sessions[1]] = h
====
